---- MODULE Spec2Model ----
(***************************************************************************)
(* Model of the virtual-host registry and dispatcher of fiber-vhosts2      *)
(* (src/vhosts.go): VhostsManager with its RWMutex, the maps hosts and     *)
(* wildcards, the default app, and the handler built by VhostMiddleware.   *)
(*                                                                         *)
(* A hostname is a Go string: here a sequence of one-character strings,    *)
(* so that strings.HasPrefix, the slice hostname[2:], strings.Split and    *)
(* strings.Join are computed character by character.                       *)
(***************************************************************************)
EXTENDS Integers, Sequences, FiniteSets, TLC

VARIABLES hosts, wildcards, defaultApp, enableLog, recoverFromPanic, uses, mu, pc, arg, ret, pre, prev, bound

vars == <<hosts, wildcards, defaultApp, enableLog, recoverFromPanic, uses, mu, pc, arg, ret, pre, prev, bound>>

(***************************************************************************)
(* Bounds of the model.                                                    *)
(***************************************************************************)
\* most bindings (exact plus wildcard) the registry holds at once
MaxEntries == 2
\* most recover middlewares the dispatcher has appended to one app
MaxUse == 1
\* goroutines calling into the manager concurrently
NumThreads == 2

(***************************************************************************)
(* Values.                                                                 *)
(***************************************************************************)
Nil == "nil"
Apps == {"app1", "app2"}
AppsOrNil == Apps \cup {Nil}

ErrInvalidHostname == "invalid hostname"
ErrHostExists == "host already exists"
ErrHostNotFound == "host not found"
ErrNotFound == "Not Found"
NoErr == "nil error"

Dot == "."
Star == "*"
WildcardPrefix == <<Star, Dot>>
EmptyHostname == <<>>

(***************************************************************************)
(* The strings package, on sequences of characters.                        *)
(***************************************************************************)
HasPrefix(s, p) == Len(s) >= Len(p) /\ SubSeq(s, 1, Len(p)) = p

\* s[n:]
SliceFrom(s, n) == SubSeq(s, n + 1, Len(s))

\* strings.Index(s, sep) for a one-character sep, 1-based; 0 when absent
IndexOf(s, sep) == IF \E i \in 1..Len(s) : s[i] = sep THEN CHOOSE i \in 1..Len(s) : s[i] = sep /\ \A j \in 1..(i - 1) : s[j] # sep ELSE 0

RECURSIVE Split(_, _)
Split(s, sep) == LET i == IndexOf(s, sep) IN IF i = 0 THEN <<s>> ELSE <<SubSeq(s, 1, i - 1)>> \o Split(SliceFrom(s, i), sep)

RECURSIVE Join(_, _)
Join(parts, sep) == IF Len(parts) = 0 THEN <<>> ELSE IF Len(parts) = 1 THEN parts[1] ELSE parts[1] \o <<sep>> \o Join(Tail(parts), sep)

(***************************************************************************)
(* Go maps as functions on their key sets.                                 *)
(***************************************************************************)
EmptyMap == <<>>
MapPut(m, k, v) == [x \in (DOMAIN m) \cup {k} |-> IF x = k THEN v ELSE m[x]]
MapDelete(m, k) == [x \in (DOMAIN m) \ {k} |-> m[x]]

(***************************************************************************)
(* Hostnames the callers pass in: the domain "d", its subdomains, their    *)
(* wildcard forms "*.<name>", and the empty string.                        *)
(***************************************************************************)
\* the name of the subdomain x of domain d
SubdomainOf(x, d) == x \o <<Dot>> \o d

Tld == <<"d">>
Subs == {<<"x">>, <<"y">>}
Sub1 == {Join(<<s, Tld>>, Dot) : s \in Subs}
Sub2 == {Join(<<s, t>>, Dot) : s \in Subs, t \in Sub1}
PlainNames == {Tld} \cup Sub1
WildNames == {WildcardPrefix \o n : n \in PlainNames}
\* arguments of AddHostname, RemoveHostname and GetHostname
RegNames == {EmptyHostname} \cup PlainNames \cup WildNames
\* Host headers of requests
ReqNames == RegNames \cup Sub2

(***************************************************************************)
(* VhostsManager and its methods, as functions of the fields they read.    *)
(***************************************************************************)
\* NewVhostsManager: config is the variadic argument, a sequence of Config
NewVhostsManager(config) == [hosts |-> EmptyMap, wildcards |-> EmptyMap, defaultApp |-> IF Len(config) > 0 THEN config[1].DefaultApp ELSE Nil, enableLog |-> IF Len(config) > 0 THEN config[1].EnableLogging ELSE FALSE]

Configs == [DefaultApp : AppsOrNil, EnableLogging : BOOLEAN, RecoverFromPanic : BOOLEAN]

\* AddHostnameLocked as the replace-on-add of the first version of the package
AddHostnameLocked_Overwrite(h, w, hostname, app) ==
    IF HasPrefix(hostname, WildcardPrefix)
    THEN [err |-> NoErr, hosts |-> h, wildcards |-> MapPut(w, SliceFrom(hostname, 2), app)]
    ELSE [err |-> NoErr, hosts |-> MapPut(h, hostname, app), wildcards |-> w]

\* AddHostname, the part under m.mu.Lock(): the error and the two maps afterwards
AddHostnameLocked(h, w, hostname, app) ==
    IF HasPrefix(hostname, WildcardPrefix)
    THEN IF SliceFrom(hostname, 2) \in DOMAIN w
         THEN [err |-> ErrHostExists, hosts |-> h, wildcards |-> w]
         ELSE [err |-> NoErr, hosts |-> h, wildcards |-> MapPut(w, SliceFrom(hostname, 2), app)]
    ELSE IF hostname \in DOMAIN h
         THEN [err |-> ErrHostExists, hosts |-> h, wildcards |-> w]
         ELSE [err |-> NoErr, hosts |-> MapPut(h, hostname, app), wildcards |-> w]

\* AddHostname without the check of the empty hostname
AddHostname_NoEmptyCheck(h, w, hostname, app) == AddHostnameLocked(h, w, hostname, app)

\* AddHostname: the empty hostname is rejected before the lock is taken
AddHostname(h, w, hostname, app) ==
    IF hostname = EmptyHostname
    THEN [err |-> ErrInvalidHostname, hosts |-> h, wildcards |-> w]
    ELSE AddHostnameLocked(h, w, hostname, app)

\* RemoveHostname looking in m.hosts only, whatever the form of the hostname
RemoveHostname_ExactOnly(h, w, hostname) ==
    IF hostname \notin DOMAIN h
    THEN [err |-> ErrHostNotFound, hosts |-> h, wildcards |-> w]
    ELSE [err |-> NoErr, hosts |-> MapDelete(h, hostname), wildcards |-> w]

\* RemoveHostname whose wildcard branch also deletes the exact entry of the suffix
RemoveHostname_WildcardAlsoExact(h, w, hostname) ==
    IF HasPrefix(hostname, WildcardPrefix)
    THEN IF SliceFrom(hostname, 2) \notin DOMAIN w
         THEN [err |-> ErrHostNotFound, hosts |-> h, wildcards |-> w]
         ELSE [err |-> NoErr, hosts |-> MapDelete(h, SliceFrom(hostname, 2)), wildcards |-> MapDelete(w, SliceFrom(hostname, 2))]
    ELSE IF hostname \notin DOMAIN h
         THEN [err |-> ErrHostNotFound, hosts |-> h, wildcards |-> w]
         ELSE [err |-> NoErr, hosts |-> MapDelete(h, hostname), wildcards |-> w]

\* RemoveHostname whose wildcard branch returns nil without the delete
RemoveHostname_WildcardNoDelete(h, w, hostname) ==
    IF HasPrefix(hostname, WildcardPrefix)
    THEN IF SliceFrom(hostname, 2) \notin DOMAIN w
         THEN [err |-> ErrHostNotFound, hosts |-> h, wildcards |-> w]
         ELSE [err |-> NoErr, hosts |-> h, wildcards |-> w]
    ELSE IF hostname \notin DOMAIN h
         THEN [err |-> ErrHostNotFound, hosts |-> h, wildcards |-> w]
         ELSE [err |-> NoErr, hosts |-> MapDelete(h, hostname), wildcards |-> w]

\* RemoveHostname
RemoveHostname(h, w, hostname) ==
    IF HasPrefix(hostname, WildcardPrefix)
    THEN IF SliceFrom(hostname, 2) \notin DOMAIN w
         THEN [err |-> ErrHostNotFound, hosts |-> h, wildcards |-> w]
         ELSE [err |-> NoErr, hosts |-> h, wildcards |-> MapDelete(w, SliceFrom(hostname, 2))]
    ELSE IF hostname \notin DOMAIN h
         THEN [err |-> ErrHostNotFound, hosts |-> h, wildcards |-> w]
         ELSE [err |-> NoErr, hosts |-> MapDelete(h, hostname), wildcards |-> w]

\* GetHostname answering as findMatchingApp does, from the wildcards and the default too
GetHostname_Resolving(h, hostname) ==
    LET app == IF hostname \in DOMAIN h THEN h[hostname]
               ELSE IF Len(Split(hostname, Dot)) > 1 /\ Join(Tail(Split(hostname, Dot)), Dot) \in DOMAIN wildcards
                    THEN wildcards[Join(Tail(Split(hostname, Dot)), Dot)]
                    ELSE defaultApp
    IN [app |-> app, exists |-> app # Nil]

\* GetHostname: app, exists := m.hosts[hostname]
GetHostname(h, hostname) == IF hostname \in DOMAIN h THEN [app |-> h[hostname], exists |-> TRUE] ELSE [app |-> Nil, exists |-> FALSE]

\* the orders in which ranging over a map with key set S may yield its keys
Orders(S) == {l \in [1..Cardinality(S) -> S] : \A k \in S : \E i \in 1..Cardinality(S) : l[i] = k}

\* GetHostnames with make([]string, len(m.hosts)): len(m.hosts) empty strings, then the keys
GetHostnames_Capacity(h) == {[i \in 1..(2 * Len(l)) |-> IF i <= Len(l) THEN EmptyHostname ELSE l[i - Len(l)]] : l \in Orders(DOMAIN h)}

\* GetHostnames: the slices it may return
GetHostnames(h) == Orders(DOMAIN h)

\* SetDefaultApp that keeps the default it has when given nil
SetDefaultApp_IgnoreNil(app) == IF app = Nil THEN defaultApp ELSE app

\* SetDefaultApp
SetDefaultApp(app) == app

\* the wildcard lookup with the whole hostname as the key (parts[1:] forgotten)
WildcardMatch_NoStrip(w, hostname) == IF hostname \in DOMAIN w THEN [app |-> w[hostname], exists |-> TRUE] ELSE [app |-> Nil, exists |-> FALSE]

\* the wildcard lookup of findMatchingApp: the key is the hostname without its first label
WildcardMatch(w, hostname) ==
    LET parts == Split(hostname, Dot) IN
    IF Len(parts) > 1
    THEN LET domain == Join(Tail(parts), Dot) IN
         IF domain \in DOMAIN w THEN [app |-> w[domain], exists |-> TRUE] ELSE [app |-> Nil, exists |-> FALSE]
    ELSE [app |-> Nil, exists |-> FALSE]

\* findMatchingApp trying the wildcards before the exact hostnames
findMatchingApp_WildcardFirst(h, w, d, hostname) ==
    LET m == WildcardMatch(w, hostname) IN
    IF m.exists THEN m.app ELSE IF hostname \in DOMAIN h THEN h[hostname] ELSE d

\* findMatchingApp
findMatchingApp(h, w, d, hostname) ==
    IF hostname \in DOMAIN h THEN h[hostname]
    ELSE LET m == WildcardMatch(w, hostname) IN IF m.exists THEN m.app ELSE d

\* the handler of the first version of the package: m.hosts only, no wildcard, no default
VhostHandler_ExactOnly(h, w, d, log, u, hostname) ==
    LET app == GetHostname(h, hostname).app
        info == IF log THEN <<"Info">> ELSE <<>>
        warn == IF log THEN <<"Warn">> ELSE <<>>
    IN IF app = Nil
       THEN [err |-> ErrNotFound, app |-> Nil, invoked |-> Nil, logs |-> info \o warn, uses |-> u]
       ELSE [err |-> NoErr, app |-> app, invoked |-> app, logs |-> info, uses |-> IF log THEN [u EXCEPT ![app] = @ + 1] ELSE u]

\* the handler VhostMiddleware returns, run on one request without interruption:
\* what it returns, the app it resolved and invoked, the records it logged and
\* the middleware counts of the apps after app.Use(recoverHandler)
VhostHandler(h, w, d, log, u, hostname) ==
    LET app == findMatchingApp(h, w, d, hostname)
        info == IF log THEN <<"Info">> ELSE <<>>
        warn == IF log THEN <<"Warn">> ELSE <<>>
    IN IF app = Nil
       THEN [err |-> ErrNotFound, app |-> Nil, invoked |-> Nil, logs |-> info \o warn, uses |-> u]
       ELSE [err |-> NoErr, app |-> app, invoked |-> app, logs |-> info, uses |-> IF log THEN [u EXCEPT ![app] = @ + 1] ELSE u]

(***************************************************************************)
(* State.                                                                  *)
(*   hosts, wildcards, defaultApp, enableLog: the fields of VhostsManager  *)
(*   recoverFromPanic: Config.RecoverFromPanic as given to the constructor *)
(*   uses[a]: how many recover middlewares app a has had appended by Use   *)
(*   mu: the RWMutex; pc, arg, ret: each goroutine's position, the call it *)
(*   is in and what its last call returned                                 *)
(*   pre: the registry and the apps as they were before the last call      *)
(*   prev: the call before the last one, kept while the last call is a     *)
(*   RemoveHostname of the hostname that call added or removed             *)
(*   bound: for each hostname whose last AddHostname returned nil and that *)
(*   no RemoveHostname returning nil followed, the app it was added with   *)
(***************************************************************************)
Threads == 1..NumThreads
\* the goroutine that makes the calls when they are made one after another
Caller == 1

NoArg == [op |-> "none", hostname |-> EmptyHostname, app |-> Nil]
NoRet == [err |-> NoErr, app |-> Nil, exists |-> FALSE, list |-> <<>>, logs |-> <<>>, invoked |-> Nil]
NoPrev == [op |-> "none"]
Unlocked == [writer |-> 0, readers |-> {}]

Registry == [hosts |-> hosts, wildcards |-> wildcards, defaultApp |-> defaultApp, uses |-> uses]

NumEntries(h, w) == Cardinality(DOMAIN h) + Cardinality(DOMAIN w)

InitWith(config) ==
    LET m == NewVhostsManager(config) IN
    /\ hosts = m.hosts
    /\ wildcards = m.wildcards
    /\ defaultApp = m.defaultApp
    /\ enableLog = m.enableLog
    /\ recoverFromPanic = (IF Len(config) > 0 THEN config[1].RecoverFromPanic ELSE FALSE)
    /\ uses = [a \in Apps |-> 0]
    /\ mu = Unlocked
    /\ pc = [t \in Threads |-> "idle"]
    /\ arg = [t \in Threads |-> NoArg]
    /\ ret = [t \in Threads |-> NoRet]
    /\ pre = [hosts |-> m.hosts, wildcards |-> m.wildcards, defaultApp |-> m.defaultApp, uses |-> [a \in Apps |-> 0]]
    /\ prev = NoPrev
    /\ bound = EmptyMap

\* what a call that returned err does to the record of completed registrations
Completed(b, a, err) ==
    IF err # NoErr THEN b
    ELSE IF a.op = "AddHostname" THEN MapPut(b, a.hostname, a.app)
    ELSE IF a.op = "RemoveHostname" THEN MapDelete(b, a.hostname)
    ELSE b

\* the manager is built without a Config, or with one that sets DefaultApp only
Init == \E config \in {<<>>} \cup {<<c>> : c \in {k \in Configs : ~k.EnableLogging /\ ~k.RecoverFromPanic}} : InitWith(config)

(***************************************************************************)
(* Calls made one after another by one goroutine: each action is a whole   *)
(* method, from its call to its return.                                    *)
(***************************************************************************)
\* what the observation variables hold after the caller's call a returned r
Observe(a, r) ==
    /\ arg' = [arg EXCEPT ![Caller] = a]
    /\ ret' = [ret EXCEPT ![Caller] = r]
    /\ pre' = Registry
    /\ prev' = IF a.op = "RemoveHostname" /\ arg[Caller].op \in {"AddHostname", "RemoveHostname"} /\ arg[Caller].hostname = a.hostname /\ ret[Caller].err = NoErr
               THEN [op |-> arg[Caller].op, hostname |-> arg[Caller].hostname, app |-> arg[Caller].app, pre |-> pre]
               ELSE NoPrev
    /\ bound' = Completed(bound, a, r.err)
    /\ UNCHANGED <<mu, pc, enableLog, recoverFromPanic>>

CallAddHostname(hostname, app) ==
    LET r == AddHostname(hosts, wildcards, hostname, app) IN
    /\ NumEntries(r.hosts, r.wildcards) <= MaxEntries
    /\ hosts' = r.hosts
    /\ wildcards' = r.wildcards
    /\ UNCHANGED <<defaultApp, uses>>
    /\ Observe([op |-> "AddHostname", hostname |-> hostname, app |-> app], [NoRet EXCEPT !.err = r.err])

CallRemoveHostname(hostname) ==
    LET r == RemoveHostname(hosts, wildcards, hostname) IN
    /\ hosts' = r.hosts
    /\ wildcards' = r.wildcards
    /\ UNCHANGED <<defaultApp, uses>>
    /\ Observe([op |-> "RemoveHostname", hostname |-> hostname, app |-> Nil], [NoRet EXCEPT !.err = r.err])

CallGetHostname(hostname) ==
    LET r == GetHostname(hosts, hostname) IN
    /\ UNCHANGED <<hosts, wildcards, defaultApp, uses>>
    /\ Observe([op |-> "GetHostname", hostname |-> hostname, app |-> Nil], [NoRet EXCEPT !.app = r.app, !.exists = r.exists])

CallGetHostnames ==
    /\ UNCHANGED <<hosts, wildcards, defaultApp, uses>>
    /\ \E l \in GetHostnames(hosts) : Observe([op |-> "GetHostnames", hostname |-> EmptyHostname, app |-> Nil], [NoRet EXCEPT !.list = l])

CallSetDefaultApp(app) ==
    /\ defaultApp' = SetDefaultApp(app)
    /\ UNCHANGED <<hosts, wildcards, uses>>
    /\ Observe([op |-> "SetDefaultApp", hostname |-> EmptyHostname, app |-> app], NoRet)

\* a handler that stores the app it resolved under the request's hostname in m.hosts
Request_CachesMatch(hostname) ==
    LET r == VhostHandler(hosts, wildcards, defaultApp, enableLog, uses, hostname) IN
    /\ \A a \in Apps : r.uses[a] <= MaxUse
    /\ uses' = r.uses
    /\ hosts' = IF r.app # Nil THEN MapPut(hosts, hostname, r.app) ELSE hosts
    /\ UNCHANGED <<wildcards, defaultApp>>
    /\ Observe([op |-> "Request", hostname |-> hostname, app |-> Nil], [NoRet EXCEPT !.err = r.err, !.app = r.app, !.invoked = r.invoked, !.logs = r.logs])

\* one request served by the handler of VhostMiddleware
Request(hostname) ==
    LET r == VhostHandler(hosts, wildcards, defaultApp, enableLog, uses, hostname) IN
    /\ \A a \in Apps : r.uses[a] <= MaxUse
    /\ uses' = r.uses
    /\ UNCHANGED <<hosts, wildcards, defaultApp>>
    /\ Observe([op |-> "Request", hostname |-> hostname, app |-> Nil], [NoRet EXCEPT !.err = r.err, !.app = r.app, !.invoked = r.invoked, !.logs = r.logs])

Next ==
    \/ \E hostname \in RegNames, app \in Apps : CallAddHostname(hostname, app)
    \/ \E hostname \in RegNames : CallRemoveHostname(hostname)
    \/ \E hostname \in RegNames : CallGetHostname(hostname)
    \/ CallGetHostnames
    \/ \E app \in AppsOrNil : CallSetDefaultApp(app)
    \/ \E hostname \in ReqNames : Request(hostname)

Spec == Init /\ [][Next]_vars

(***************************************************************************)
(* The same calls on a manager built with any Config, logging and panic    *)
(* recovery included, for the hostnames d, x.d, y.d and *.d and requests   *)
(* one label deeper.                                                       *)
(***************************************************************************)
CfgRegNames == PlainNames \cup {WildcardPrefix \o Tld}
CfgReqNames == PlainNames \cup {SubdomainOf(s, n) : s \in {<<"y">>}, n \in {SubdomainOf(<<"x">>, Tld)}}

InitCfg == \E config \in {<<>>} \cup {<<c>> : c \in Configs} : InitWith(config)

NextCfg ==
    \/ \E hostname \in CfgRegNames, app \in Apps : CallAddHostname(hostname, app)
    \/ \E hostname \in CfgRegNames : CallRemoveHostname(hostname)
    \/ \E hostname \in CfgRegNames : CallGetHostname(hostname)
    \/ CallGetHostnames
    \/ \E app \in AppsOrNil : CallSetDefaultApp(app)
    \/ \E hostname \in CfgReqNames : Request(hostname)

SpecCfg == InitCfg /\ [][NextCfg]_vars

(***************************************************************************)
(* Goroutines calling concurrently.  A method is a sequence of steps: the  *)
(* call, taking the lock (when the method takes one), and the body with    *)
(* the deferred unlock and the return.  The handler of VhostMiddleware     *)
(* calls findMatchingApp, which takes no lock: its reads of m.hosts,       *)
(* m.wildcards and m.defaultApp are steps of their own.  A read of a map   *)
(* made while another goroutine is in the body that writes that map is a   *)
(* data race: it yields any result, or the runtime's fatal error           *)
(* "concurrent map read and map write", which ends the process.            *)
(***************************************************************************)
\* hostnames and apps the goroutines pass: an exact name and the wildcard over it,
\* one app for the registrations and another for the default
ConcRegNames == {Tld, WildcardPrefix \o Tld}
ConcReqNames == {Tld, SubdomainOf(<<"x">>, Tld)}
ConcApps == {"app1"}
ConcDefaultApps == {"app2", Nil}

WritePositions == {"AddHostname:Locked", "RemoveHostname:Locked", "SetDefaultApp:Locked"}
LockedReadPositions == {"GetHostname:RLocked", "GetHostnames:RLocked"}
FindPositions == {"Request:Exact", "Request:Wildcard", "Request:Default"}
Fatal == "fatal error"
Crashed == \E t \in Threads : pc[t] = Fatal

\* the fields the body goroutine t is in writes
WriteSet(t) ==
    IF pc[t] = "AddHostname:Locked"
    THEN LET r == AddHostnameLocked(hosts, wildcards, arg[t].hostname, arg[t].app) IN
         (IF r.hosts # hosts THEN {"hosts"} ELSE {}) \cup (IF r.wildcards # wildcards THEN {"wildcards"} ELSE {})
    ELSE IF pc[t] = "RemoveHostname:Locked"
    THEN LET r == RemoveHostname(hosts, wildcards, arg[t].hostname) IN
         (IF r.hosts # hosts THEN {"hosts"} ELSE {}) \cup (IF r.wildcards # wildcards THEN {"wildcards"} ELSE {})
    ELSE IF pc[t] = "SetDefaultApp:Locked" THEN {"defaultApp"}
    ELSE {}

\* goroutine t reads field f while another goroutine is writing it
Races(t, f) == \E w \in Threads \ {t} : f \in WriteSet(w)

\* what a map read can yield
MapReads == {[app |-> Nil, exists |-> FALSE]} \cup {[app |-> a, exists |-> TRUE] : a \in Apps}

LockPositions == {"AddHostname:Lock", "RemoveHostname:Lock", "SetDefaultApp:Lock"}
RLockPositions == {"GetHostname:RLock", "GetHostnames:RLock"}

\* sync.RWMutex.  mu.readers are the goroutines counted as readers: those in a body
\* under RLock and those that Unlock let in and that have not yet gone on.
\* Lock waits for the writer and the readers to leave.  RLock waits while a writer
\* holds the lock or waits for it.  Unlock lets in every goroutine waiting in RLock.
WriterWaiting == \E u \in Threads : pc[u] \in LockPositions
CanLock == mu.writer = 0 /\ mu.readers = {}
CanRLock == mu.writer = 0 /\ ~WriterWaiting
Unlock == [writer |-> 0, readers |-> {u \in Threads : pc[u] \in RLockPositions}]

Call(t, a, position) ==
    /\ ~Crashed
    /\ pc[t] = "idle"
    /\ arg' = [arg EXCEPT ![t] = a]
    /\ ret' = [ret EXCEPT ![t] = NoRet]
    /\ pc' = [pc EXCEPT ![t] = position]
    /\ UNCHANGED <<hosts, wildcards, defaultApp, enableLog, recoverFromPanic, uses, mu, pre, prev, bound>>

Return(t, r) ==
    /\ ret' = [ret EXCEPT ![t] = r]
    /\ pc' = [pc EXCEPT ![t] = "idle"]
    /\ bound' = Completed(bound, arg[t], r.err)
    /\ UNCHANGED <<arg, enableLog, recoverFromPanic, pre, prev>>

\* AddHostname up to m.mu.Lock(): the empty hostname returns at once
BeginAddHostname(t, hostname, app) ==
    \/ /\ hostname = EmptyHostname
       /\ ~Crashed
       /\ pc[t] = "idle"
       /\ arg' = [arg EXCEPT ![t] = [op |-> "AddHostname", hostname |-> hostname, app |-> app]]
       /\ ret' = [ret EXCEPT ![t] = [NoRet EXCEPT !.err = AddHostname(hosts, wildcards, hostname, app).err]]
       /\ UNCHANGED <<hosts, wildcards, defaultApp, enableLog, recoverFromPanic, uses, mu, pc, pre, prev, bound>>
    \/ /\ hostname # EmptyHostname
       /\ Call(t, [op |-> "AddHostname", hostname |-> hostname, app |-> app], "AddHostname:Lock")

BeginRemoveHostname(t, hostname) == Call(t, [op |-> "RemoveHostname", hostname |-> hostname, app |-> Nil], "RemoveHostname:Lock")

BeginSetDefaultApp(t, app) == Call(t, [op |-> "SetDefaultApp", hostname |-> EmptyHostname, app |-> app], "SetDefaultApp:Lock")

BeginGetHostname(t, hostname) == Call(t, [op |-> "GetHostname", hostname |-> hostname, app |-> Nil], "GetHostname:RLock")

BeginGetHostnames(t) == Call(t, [op |-> "GetHostnames", hostname |-> EmptyHostname, app |-> Nil], "GetHostnames:RLock")

\* m.mu.Lock() of AddHostname, RemoveHostname and SetDefaultApp
Lock(t) ==
    /\ ~Crashed
    /\ pc[t] \in LockPositions
    /\ CanLock
    /\ mu' = [mu EXCEPT !.writer = t]
    /\ pc' = [pc EXCEPT ![t] = arg[t].op \o ":Locked"]
    /\ UNCHANGED <<hosts, wildcards, defaultApp, enableLog, recoverFromPanic, uses, arg, ret, pre, prev, bound>>

\* m.mu.RLock() of GetHostname and GetHostnames
RLock(t) ==
    /\ ~Crashed
    /\ pc[t] \in RLockPositions
    /\ (t \in mu.readers \/ CanRLock)
    /\ mu' = [mu EXCEPT !.readers = @ \cup {t}]
    /\ pc' = [pc EXCEPT ![t] = arg[t].op \o ":RLocked"]
    /\ UNCHANGED <<hosts, wildcards, defaultApp, enableLog, recoverFromPanic, uses, arg, ret, pre, prev, bound>>

\* the body of AddHostname storing maps built from a copy taken before any call was made
DoAddHostname_StaleCopy(t) ==
    LET r == AddHostnameLocked(pre.hosts, pre.wildcards, arg[t].hostname, arg[t].app) IN
    /\ ~Crashed
    /\ pc[t] = "AddHostname:Locked"
    /\ hosts' = r.hosts
    /\ wildcards' = r.wildcards
    /\ mu' = Unlock
    /\ UNCHANGED <<defaultApp, uses>>
    /\ Return(t, [NoRet EXCEPT !.err = r.err])

\* the body of AddHostname with the Unlock before "return nil" only, not deferred:
\* the return of ErrHostExists keeps the lock
DoAddHostname_UnlockOnSuccess(t) ==
    LET r == AddHostnameLocked(hosts, wildcards, arg[t].hostname, arg[t].app) IN
    /\ ~Crashed
    /\ pc[t] = "AddHostname:Locked"
    /\ hosts' = r.hosts
    /\ wildcards' = r.wildcards
    /\ mu' = IF r.err = NoErr THEN Unlock ELSE mu
    /\ UNCHANGED <<defaultApp, uses>>
    /\ Return(t, [NoRet EXCEPT !.err = r.err])

\* the body of AddHostname under the lock, the deferred Unlock and the return
DoAddHostname(t) ==
    LET r == AddHostnameLocked(hosts, wildcards, arg[t].hostname, arg[t].app) IN
    /\ ~Crashed
    /\ pc[t] = "AddHostname:Locked"
    /\ hosts' = r.hosts
    /\ wildcards' = r.wildcards
    /\ mu' = Unlock
    /\ UNCHANGED <<defaultApp, uses>>
    /\ Return(t, [NoRet EXCEPT !.err = r.err])

DoRemoveHostname(t) ==
    LET r == RemoveHostname(hosts, wildcards, arg[t].hostname) IN
    /\ ~Crashed
    /\ pc[t] = "RemoveHostname:Locked"
    /\ hosts' = r.hosts
    /\ wildcards' = r.wildcards
    /\ mu' = Unlock
    /\ UNCHANGED <<defaultApp, uses>>
    /\ Return(t, [NoRet EXCEPT !.err = r.err])

DoSetDefaultApp(t) ==
    /\ ~Crashed
    /\ pc[t] = "SetDefaultApp:Locked"
    /\ defaultApp' = SetDefaultApp(arg[t].app)
    /\ mu' = Unlock
    /\ UNCHANGED <<hosts, wildcards, uses>>
    /\ Return(t, NoRet)

\* the body of GetHostname under the read lock, the deferred RUnlock and the return
DoGetHostname(t) ==
    LET r == GetHostname(hosts, arg[t].hostname) IN
    /\ ~Crashed
    /\ pc[t] = "GetHostname:RLocked"
    /\ mu' = [mu EXCEPT !.readers = @ \ {t}]
    /\ UNCHANGED <<hosts, wildcards, defaultApp, uses>>
    /\ Return(t, [NoRet EXCEPT !.app = r.app, !.exists = r.exists])

DoGetHostnames(t) ==
    /\ ~Crashed
    /\ pc[t] = "GetHostnames:RLocked"
    /\ mu' = [mu EXCEPT !.readers = @ \ {t}]
    /\ UNCHANGED <<hosts, wildcards, defaultApp, uses>>
    /\ \E l \in GetHostnames(hosts) : Return(t, [NoRet EXCEPT !.list = l])

\* the handler up to the call of findMatchingApp: c.Hostname() and the Info record
BeginRequest(t, hostname) ==
    /\ Call(t, [op |-> "Request", hostname |-> hostname, app |-> Nil], "Request:Exact")

\* goroutine t goes on in findMatchingApp having read r from a map, or dies if the runtime caught the race
AfterMapRead(t, r, missed) ==
    /\ pc' = [pc EXCEPT ![t] = IF r.exists THEN "Request:Invoke" ELSE missed]
    /\ ret' = [ret EXCEPT ![t].app = r.app, ![t].exists = r.exists, ![t].logs = IF enableLog THEN <<"Info">> ELSE <<>>]
    /\ UNCHANGED <<hosts, wildcards, defaultApp, enableLog, recoverFromPanic, uses, mu, arg, pre, prev, bound>>

Die(t) ==
    /\ pc' = [pc EXCEPT ![t] = Fatal]
    /\ UNCHANGED <<hosts, wildcards, defaultApp, enableLog, recoverFromPanic, uses, mu, arg, ret, pre, prev, bound>>

\* app, exists := m.hosts[hostname], without the lock
FindExact(t) ==
    /\ ~Crashed
    /\ pc[t] = "Request:Exact"
    /\ LET missed == IF Len(Split(arg[t].hostname, Dot)) > 1 THEN "Request:Wildcard" ELSE "Request:Default" IN
       \/ AfterMapRead(t, GetHostname(hosts, arg[t].hostname), missed)
       \/ Races(t, "hosts") /\ \E r \in MapReads : AfterMapRead(t, r, missed)
       \/ Races(t, "hosts") /\ Die(t)

\* app, exists := m.wildcards[domain], without the lock
FindWildcard(t) ==
    /\ ~Crashed
    /\ pc[t] = "Request:Wildcard"
    /\ \/ AfterMapRead(t, WildcardMatch(wildcards, arg[t].hostname), "Request:Default")
       \/ Races(t, "wildcards") /\ \E r \in MapReads : AfterMapRead(t, r, "Request:Default")
       \/ Races(t, "wildcards") /\ Die(t)

\* return m.defaultApp, without the lock: a pointer, read whole, before or after a racing write
FindDefault(t) ==
    /\ ~Crashed
    /\ pc[t] = "Request:Default"
    /\ \E d \in {defaultApp} \cup {arg[w].app : w \in {u \in Threads \ {t} : pc[u] = "SetDefaultApp:Locked"}} :
          /\ pc' = [pc EXCEPT ![t] = "Request:Invoke"]
          /\ ret' = [ret EXCEPT ![t].app = d]
    /\ UNCHANGED <<hosts, wildcards, defaultApp, enableLog, recoverFromPanic, uses, mu, arg, pre, prev, bound>>

\* the handler after findMatchingApp returned: ErrNotFound, or app.Use and the app's handler
Invoke(t) ==
    /\ ~Crashed
    /\ pc[t] = "Request:Invoke"
    /\ (enableLog /\ ret[t].app # Nil) => uses[ret[t].app] < MaxUse
    /\ uses' = IF enableLog /\ ret[t].app # Nil THEN [uses EXCEPT ![ret[t].app] = @ + 1] ELSE uses
    /\ UNCHANGED <<hosts, wildcards, defaultApp, mu>>
    /\ Return(t, [ret[t] EXCEPT !.err = IF ret[t].app = Nil THEN ErrNotFound ELSE NoErr,
                               !.invoked = ret[t].app,
                               !.logs = IF enableLog /\ ret[t].app = Nil THEN @ \o <<"Warn">> ELSE @])

NextConc ==
    \/ \E t \in Threads, hostname \in ConcRegNames \cup {EmptyHostname}, app \in ConcApps : BeginAddHostname(t, hostname, app)
    \/ \E t \in Threads, hostname \in ConcRegNames : BeginRemoveHostname(t, hostname)
    \/ \E t \in Threads, app \in ConcDefaultApps : BeginSetDefaultApp(t, app)
    \/ \E t \in Threads, hostname \in {Tld} : BeginGetHostname(t, hostname)
    \/ \E t \in Threads : BeginGetHostnames(t)
    \/ \E t \in Threads, hostname \in ConcReqNames : BeginRequest(t, hostname)
    \/ \E t \in Threads : Lock(t)
    \/ \E t \in Threads : RLock(t)
    \/ \E t \in Threads : DoAddHostname(t)
    \/ \E t \in Threads : DoRemoveHostname(t)
    \/ \E t \in Threads : DoSetDefaultApp(t)
    \/ \E t \in Threads : DoGetHostname(t)
    \/ \E t \in Threads : DoGetHostnames(t)
    \/ \E t \in Threads : FindExact(t)
    \/ \E t \in Threads : FindWildcard(t)
    \/ \E t \in Threads : FindDefault(t)
    \/ \E t \in Threads : Invoke(t)

SpecConc == Init /\ [][NextConc]_vars

(***************************************************************************)
(* Concurrent registration: every goroutine calls AddHostname once, each   *)
(* with a hostname of its own that the registry does not hold, in any      *)
(* interleaving; when all the calls have returned, requests are served for *)
(* the hostnames added.                                                    *)
(***************************************************************************)
\* the hostname goroutine t adds: "d", "*.d", "x.d", "*.x.d"
AddNames == <<Tld, WildcardPrefix \o Tld, SubdomainOf(<<"x">>, Tld), WildcardPrefix \o SubdomainOf(<<"x">>, Tld)>>
AddedName(t) == AddNames[t]
\* a Host header that hostname n is to serve: n itself, or "y.s" for the wildcard "*.s"
HostFor(n) == IF HasPrefix(n, WildcardPrefix) THEN SubdomainOf(<<"y">>, SliceFrom(n, 2)) ELSE n
AllAdded == \A t \in Threads : pc[t] = "idle" /\ arg[t].op # "none"

AddsBegin(t, app) == arg[t].op = "none" /\ BeginAddHostname(t, AddedName(t), app)

AddsRequest(t, u) == AllAdded /\ BeginRequest(t, HostFor(AddedName(u)))

NextAdds ==
    \/ \E t \in Threads, app \in Apps : AddsBegin(t, app)
    \/ \E t \in Threads : Lock(t)
    \/ \E t \in Threads : DoAddHostname(t)
    \/ \E t \in Threads, u \in Threads : AddsRequest(t, u)
    \/ \E t \in Threads : FindExact(t)
    \/ \E t \in Threads : FindWildcard(t)
    \/ \E t \in Threads : Invoke(t)

SpecAdds == Init /\ [][NextAdds]_vars

(***************************************************************************)
(* Requests among registrations: goroutines call AddHostname and           *)
(* RemoveHostname and serve requests in any interleaving, except that a    *)
(* request for a hostname and a call that adds or removes a binding the    *)
(* request looks up (the hostname itself, or the wildcard over its parent) *)
(* do not overlap: every such call has returned before the request begins. *)
(***************************************************************************)
VisRegNames == {Tld, SubdomainOf(<<"x">>, Tld), WildcardPrefix \o Tld}
VisReqNames == {Tld, SubdomainOf(<<"x">>, Tld), SubdomainOf(<<"y">>, Tld)}

\* the hostnames whose bindings findMatchingApp(hostname) looks up, as AddHostname takes them
LookedUp(hostname) ==
    LET parts == Split(hostname, Dot) IN
    {hostname} \cup (IF Len(parts) > 1 THEN {WildcardPrefix \o Join(Tail(parts), Dot)} ELSE {})

\* hostname n is being added or removed, or a request that looks n up is being served
Changing(n) == \E u \in Threads : pc[u] # "idle" /\ arg[u].op \in {"AddHostname", "RemoveHostname"} /\ arg[u].hostname = n
Serving(n) == \E u \in Threads : pc[u] # "idle" /\ arg[u].op = "Request" /\ n \in LookedUp(arg[u].hostname)

VisAddHostname(t, hostname, app) == ~Serving(hostname) /\ BeginAddHostname(t, hostname, app)

VisRemoveHostname(t, hostname) == ~Serving(hostname) /\ BeginRemoveHostname(t, hostname)

VisRequest(t, hostname) == (\A n \in LookedUp(hostname) : ~Changing(n)) /\ BeginRequest(t, hostname)

NextVis ==
    \/ \E t \in Threads, hostname \in VisRegNames, app \in ConcApps : VisAddHostname(t, hostname, app)
    \/ \E t \in Threads, hostname \in VisRegNames : VisRemoveHostname(t, hostname)
    \/ \E t \in Threads, hostname \in VisReqNames : VisRequest(t, hostname)
    \/ \E t \in Threads : Lock(t)
    \/ \E t \in Threads : DoAddHostname(t)
    \/ \E t \in Threads : DoRemoveHostname(t)
    \/ \E t \in Threads : FindExact(t)
    \/ \E t \in Threads : FindWildcard(t)
    \/ \E t \in Threads : FindDefault(t)
    \/ \E t \in Threads : Invoke(t)

SpecVis == Init /\ [][NextVis]_vars

(***************************************************************************)
(* The registry operations alone, called concurrently: AddHostname,        *)
(* RemoveHostname, SetDefaultApp, GetHostname and GetHostnames.            *)
(* Scheduling: a goroutine that can run the body it is in does run it      *)
(* (weak fairness of the Do steps), and a goroutine waiting in Lock or     *)
(* RLock gets the lock if it can again and again (strong fairness):        *)
(* sync.Mutex's starvation mode hands the lock to the longest waiter.      *)
(***************************************************************************)
NextOps ==
    \/ \E t \in Threads, hostname \in ConcRegNames \cup {EmptyHostname}, app \in ConcApps : BeginAddHostname(t, hostname, app)
    \/ \E t \in Threads, hostname \in ConcRegNames : BeginRemoveHostname(t, hostname)
    \/ \E t \in Threads, app \in ConcDefaultApps : BeginSetDefaultApp(t, app)
    \/ \E t \in Threads, hostname \in {Tld} : BeginGetHostname(t, hostname)
    \/ \E t \in Threads : BeginGetHostnames(t)
    \/ \E t \in Threads : Lock(t)
    \/ \E t \in Threads : RLock(t)
    \/ \E t \in Threads : DoAddHostname(t)
    \/ \E t \in Threads : DoRemoveHostname(t)
    \/ \E t \in Threads : DoSetDefaultApp(t)
    \/ \E t \in Threads : DoGetHostname(t)
    \/ \E t \in Threads : DoGetHostnames(t)

FairOps ==
    \A t \in Threads :
        /\ SF_vars(Lock(t))
        /\ SF_vars(RLock(t))
        /\ WF_vars(DoAddHostname(t))
        /\ WF_vars(DoRemoveHostname(t))
        /\ WF_vars(DoSetDefaultApp(t))
        /\ WF_vars(DoGetHostname(t))
        /\ WF_vars(DoGetHostnames(t))

SpecOps == Init /\ [][NextOps]_vars /\ FairOps

(***************************************************************************)
(* Vocabulary of the properties.                                           *)
(***************************************************************************)
LastArg == arg[Caller]
LastRet == ret[Caller]

IsWildcardName(n) == Len(n) >= 2 /\ n[1] = Star /\ n[2] = Dot
Suffix(n) == SubSeq(n, 3, Len(n))
\* whether hostname n has a binding in registry reg, in the map its form selects
HasBinding(reg, n) == IF IsWildcardName(n) THEN Suffix(n) \in DOMAIN reg.wildcards ELSE n \in DOMAIN reg.hosts
SameRegistry(reg) == hosts = reg.hosts /\ wildcards = reg.wildcards /\ defaultApp = reg.defaultApp

HasDot(h) == \E i \in 1..Len(h) : h[i] = Dot
\* h without its leftmost label and the dot after it (h has a dot)
WithoutFirstLabel(h) == CHOOSE r \in {SubSeq(h, i + 1, Len(h)) : i \in {k \in 1..Len(h) : h[k] = Dot /\ \A j \in 1..(k - 1) : h[j] # Dot}} : TRUE
\* h is s with more than one label in front of it
DeeperThan(h, s) ==
    /\ Len(h) > Len(s) + 1
    /\ SubSeq(h, Len(h) - Len(s) + 1, Len(h)) = s
    /\ h[Len(h) - Len(s)] = Dot
    /\ \E i \in 1..(Len(h) - Len(s) - 1) : h[i] = Dot

Resolve(h) == findMatchingApp(hosts, wildcards, defaultApp, h)
\* the three tiers: exact, wildcard by the suffix after the first label, default
Reference(h) ==
    IF h \in DOMAIN hosts THEN hosts[h]
    ELSE IF HasDot(h) /\ WithoutFirstLabel(h) \in DOMAIN wildcards THEN wildcards[WithoutFirstLabel(h)]
    ELSE defaultApp

(***************************************************************************)
(* C1: in every registry state and for every hostname, findMatchingApp     *)
(* returns the exact entry if there is one, otherwise the wildcard entry   *)
(* keyed by the hostname without its leftmost label if the hostname has a  *)
(* dot and that entry exists, otherwise the default app; so an exact entry *)
(* wins over a matching wildcard, a hostname without a dot matches no      *)
(* wildcard, and a wildcard for suffix s plays no part for a hostname with *)
(* more than one label in front of s; a served request resolves the same.  *)
(***************************************************************************)
C1_Theorem ==
    /\ \A h \in ReqNames : Resolve(h) = Reference(h)
    /\ \A h \in ReqNames : h \in DOMAIN hosts => Resolve(h) = hosts[h]
    /\ \A h \in ReqNames : (~HasDot(h) /\ h \notin DOMAIN hosts) => Resolve(h) = defaultApp
    /\ \A s \in DOMAIN wildcards : \A h \in ReqNames : DeeperThan(h, s) => Resolve(h) = findMatchingApp(hosts, MapDelete(wildcards, s), defaultApp, h)
    /\ LastArg.op = "Request" => LastRet.app = Reference(LastArg.hostname)

\* a request for a hostname bound exactly to one app while a wildcard that also matches is bound to another
C1_Witness ==
    /\ LastArg.op = "Request"
    /\ LastArg.hostname \in DOMAIN hosts
    /\ HasDot(LastArg.hostname)
    /\ WithoutFirstLabel(LastArg.hostname) \in DOMAIN wildcards
    /\ wildcards[WithoutFirstLabel(LastArg.hostname)] # hosts[LastArg.hostname]
    /\ LastRet.app = hosts[LastArg.hostname]

C5_Theorem ==
    /\ \A h \in DOMAIN bound : ~IsWildcardName(h) => GetHostname(hosts, h) = [app |-> bound[h], exists |-> TRUE]
    /\ (LastArg.op = "GetHostname" /\ LastArg.hostname \in DOMAIN bound /\ ~IsWildcardName(LastArg.hostname)) =>
           (LastRet.exists /\ LastRet.app = bound[LastArg.hostname])

\* GetHostname finds a hostname added earlier, after the default was set and another hostname added
C5_Witness ==
    /\ LastArg.op = "GetHostname"
    /\ LastArg.hostname \in DOMAIN bound
    /\ LastRet.exists
    /\ LastRet.app = bound[LastArg.hostname]
    /\ defaultApp # Nil
    /\ NumEntries(hosts, wildcards) > 1

(***************************************************************************)
(* C6: AddHostname("", H) returns ErrInvalidHostname in every state and    *)
(* leaves hosts, wildcards and the default app as they were.               *)
(***************************************************************************)
C6_Theorem ==
    (LastArg.op = "AddHostname" /\ LastArg.hostname = EmptyHostname) =>
        (LastRet.err = ErrInvalidHostname /\ SameRegistry(pre))

\* the empty hostname rejected by a registry that holds bindings and a default
C6_Witness ==
    /\ LastArg.op = "AddHostname"
    /\ LastArg.hostname = EmptyHostname
    /\ LastRet.err = ErrInvalidHostname
    /\ NumEntries(hosts, wildcards) > 0
    /\ defaultApp # Nil

(***************************************************************************)
(* C7: RemoveHostname(h) returns ErrHostNotFound exactly when h has no     *)
(* binding in the map its form selects, and then changes nothing;          *)
(* otherwise it returns nil; a RemoveHostname right after a successful one *)
(* of the same hostname returns ErrHostNotFound.                           *)
(***************************************************************************)
C7_Theorem ==
    /\ LastArg.op = "RemoveHostname" =>
        /\ LastRet.err = ErrHostNotFound <=> ~HasBinding(pre, LastArg.hostname)
        /\ LastRet.err = ErrHostNotFound => SameRegistry(pre)
        /\ LastRet.err \in {ErrHostNotFound, NoErr}
    /\ prev.op = "RemoveHostname" => LastRet.err = ErrHostNotFound

\* the second of two RemoveHostname calls for a wildcard
C7_Witness ==
    /\ prev.op = "RemoveHostname"
    /\ IsWildcardName(LastArg.hostname)
    /\ LastRet.err = ErrHostNotFound

(***************************************************************************)
(* C8, as claimed: RemoveHostname(h) right after a successful              *)
(* AddHostname(h, H) succeeds and gives back the registry of before the    *)
(* add; GetHostname(h) finds nothing and, for h = "*.d", no "x.d" resolves *)
(* to H any more.                                                          *)
(***************************************************************************)
C8_Original ==
    prev.op = "AddHostname" =>
        /\ LastRet.err = NoErr
        /\ SameRegistry(prev.pre)
        /\ ~GetHostname(hosts, prev.hostname).exists
        /\ IsWildcardName(prev.hostname) => \A x \in Subs : Resolve(SubdomainOf(x, Suffix(prev.hostname))) # prev.app

(***************************************************************************)
(* C8, amended: the same round trip, where for h = "*.d" each "x.d"        *)
(* resolves as it does without the wildcard: to its exact entry if any,    *)
(* otherwise to the default app (which may be H itself) or to nothing.     *)
(***************************************************************************)
C8_Amended ==
    prev.op = "AddHostname" =>
        /\ LastRet.err = NoErr
        /\ SameRegistry(prev.pre)
        /\ ~GetHostname(hosts, prev.hostname).exists
        /\ IsWildcardName(prev.hostname) =>
            \A x \in Subs : LET n == SubdomainOf(x, Suffix(prev.hostname)) IN
                Resolve(n) = IF n \in DOMAIN hosts THEN hosts[n] ELSE defaultApp

\* a wildcard added with the app that is also the default, then removed
C8_Witness ==
    /\ prev.op = "AddHostname"
    /\ IsWildcardName(prev.hostname)
    /\ LastRet.err = NoErr
    /\ defaultApp = prev.app
    /\ Suffix(prev.hostname) \notin DOMAIN wildcards

(***************************************************************************)
(* C9, as claimed: while "*.d" is bound to H by a successful AddHostname,  *)
(* every "x.d" without an exact entry resolves to H, and "d" resolves to   *)
(* its exact entry if any, otherwise to the default app or to nothing.     *)
(***************************************************************************)
C9_Original ==
    \A n \in DOMAIN bound : IsWildcardName(n) =>
        /\ \A x \in Subs : SubdomainOf(x, Suffix(n)) \notin DOMAIN hosts => Resolve(SubdomainOf(x, Suffix(n))) = bound[n]
        /\ Resolve(Suffix(n)) = IF Suffix(n) \in DOMAIN hosts THEN hosts[Suffix(n)] ELSE defaultApp

(***************************************************************************)
(* C9, amended: "d" resolves without the entry "*.d" playing a part: to    *)
(* its exact entry if any, otherwise to the wildcard entry keyed by d      *)
(* without its own leftmost label if d has a dot and that entry exists,    *)
(* otherwise to the default app or to nothing.                             *)
(***************************************************************************)
C9_Amended ==
    /\ \A n \in DOMAIN bound : IsWildcardName(n) =>
        /\ \A x \in Subs : SubdomainOf(x, Suffix(n)) \notin DOMAIN hosts => Resolve(SubdomainOf(x, Suffix(n))) = bound[n]
        /\ Resolve(Suffix(n)) = findMatchingApp(hosts, MapDelete(wildcards, Suffix(n)), defaultApp, Suffix(n))
        /\ Resolve(Suffix(n)) =
              IF Suffix(n) \in DOMAIN hosts THEN hosts[Suffix(n)]
              ELSE IF HasDot(Suffix(n)) /\ WithoutFirstLabel(Suffix(n)) \in DOMAIN wildcards THEN wildcards[WithoutFirstLabel(Suffix(n))]
              ELSE defaultApp
    /\ \A n \in DOMAIN bound : (IsWildcardName(n) /\ LastArg.op = "Request" /\ LastArg.hostname \notin DOMAIN hosts /\ \E x \in Subs : LastArg.hostname = SubdomainOf(x, Suffix(n))) =>
           LastRet.app = bound[n]

\* a request for "d" itself, with "*.d" bound to one app and the wildcard of d's parent domain bound to another
C9_Witness ==
    /\ LastArg.op = "Request"
    /\ LastArg.hostname \in DOMAIN wildcards
    /\ (WildcardPrefix \o LastArg.hostname) \in DOMAIN bound
    /\ LastArg.hostname \notin DOMAIN hosts
    /\ HasDot(LastArg.hostname)
    /\ WithoutFirstLabel(LastArg.hostname) \in DOMAIN wildcards
    /\ LastRet.app = wildcards[WithoutFirstLabel(LastArg.hostname)]
    /\ LastRet.app # bound[WildcardPrefix \o LastArg.hostname]

(***************************************************************************)
(* C10: each request invokes exactly the app findMatchingApp returns for   *)
(* its hostname; when that is nil (no exact entry, no wildcard entry and   *)
(* no default) the handler returns fiber.ErrNotFound and invokes no app;   *)
(* with a default app set, a request matching no entry invokes the default *)
(* and returns nil.                                                        *)
(***************************************************************************)
C10_Theorem ==
    LastArg.op = "Request" =>
        LET h == LastArg.hostname
            r == findMatchingApp(pre.hosts, pre.wildcards, pre.defaultApp, h)
            unmatched == h \notin DOMAIN pre.hosts /\ ~(HasDot(h) /\ WithoutFirstLabel(h) \in DOMAIN pre.wildcards)
        IN /\ LastRet.app = r
           /\ r # Nil => (LastRet.invoked = r /\ LastRet.err = NoErr)
           /\ r = Nil => (LastRet.invoked = Nil /\ LastRet.err = ErrNotFound)
           /\ LastRet.err = ErrNotFound <=> (unmatched /\ pre.defaultApp = Nil)
           /\ (unmatched /\ pre.defaultApp # Nil) => (LastRet.invoked = pre.defaultApp /\ LastRet.err = NoErr)
           /\ SameRegistry(pre)

\* a request that matches no entry of a non-empty registry without default, with logging on
C10_Witness ==
    /\ LastArg.op = "Request"
    /\ LastRet.err = ErrNotFound
    /\ LastRet.invoked = Nil
    /\ NumEntries(hosts, wildcards) > 0
    /\ enableLog

(***************************************************************************)
(* C2: reads hold the read lock and writes the write lock, so that in no   *)
(* reachable state of any interleaving is one goroutine in the body of     *)
(* AddHostname, RemoveHostname or SetDefaultApp, writing hosts, wildcards  *)
(* or defaultApp, while another is reading them in GetHostname,            *)
(* GetHostnames or findMatchingApp.                                        *)
(***************************************************************************)
C2_Claim ==
    \A w \in Threads : \A r \in Threads :
        ~(pc[w] \in WritePositions /\ pc[r] \in LockedReadPositions \cup FindPositions)

(***************************************************************************)
(* C11: a request that resolves to an app has the recover middleware put   *)
(* around that app by the handler exactly when the manager was built with  *)
(* Config.RecoverFromPanic true, whatever Config.EnableLogging is.         *)
(***************************************************************************)
C11_Claim ==
    (LastArg.op = "Request" /\ LastRet.invoked # Nil) =>
        ((uses[LastRet.invoked] > pre.uses[LastRet.invoked]) <=> recoverFromPanic)

(***************************************************************************)
(* C12: for the registry a request found and its hostname, the handler run *)
(* with logging on and the handler run with logging off differ in the log  *)
(* records only: same error, same app resolved and invoked, same apps      *)
(* afterwards; the request as served is one of the two runs and leaves     *)
(* hosts, wildcards and the default app as they were.                      *)
(***************************************************************************)
C12_Claim ==
    LastArg.op = "Request" =>
        LET on == VhostHandler(pre.hosts, pre.wildcards, pre.defaultApp, TRUE, pre.uses, LastArg.hostname)
            off == VhostHandler(pre.hosts, pre.wildcards, pre.defaultApp, FALSE, pre.uses, LastArg.hostname)
            served == IF enableLog THEN on ELSE off
        IN /\ on.err = off.err
           /\ on.app = off.app
           /\ on.invoked = off.invoked
           /\ on.uses = off.uses
           /\ LastRet.err = served.err
           /\ LastRet.invoked = served.invoked
           /\ uses = served.uses
           /\ SameRegistry(pre)

(***************************************************************************)
(* C13: no call mutates an app: after AddHostname, RemoveHostname,         *)
(* SetDefaultApp, GetHostname, GetHostnames or a served request, under any *)
(* Config, every app has the middleware chain it had before the call.      *)
(***************************************************************************)
C13_Claim == \A a \in Apps : uses[a] = pre.uses[a]

(***************************************************************************)
(* C16: GetHostnames returns each key of hosts once, in any order, and     *)
(* nothing else: every hostname added with success and not removed since   *)
(* is in the slice, a wildcard "*.s" never is, and its suffix s is only if *)
(* s is itself a key of hosts.                                             *)
(***************************************************************************)
C16_Theorem ==
    LastArg.op = "GetHostnames" =>
        LET l == LastRet.list
            listed == {l[i] : i \in 1..Len(l)}
        IN /\ listed = DOMAIN pre.hosts
           /\ \A i \in 1..Len(l) : \A j \in 1..Len(l) : l[i] = l[j] => i = j
           /\ \A n \in DOMAIN bound : ~IsWildcardName(n) => n \in listed
           /\ \A n \in DOMAIN bound : IsWildcardName(n) => (n \notin listed /\ (Suffix(n) \in listed => Suffix(n) \in DOMAIN bound))
           /\ \A k \in listed : ~IsWildcardName(k)
           /\ SameRegistry(pre)

\* GetHostnames of a registry with an exact hostname and a wildcard whose suffix is not one
C16_Witness ==
    /\ LastArg.op = "GetHostnames"
    /\ Len(LastRet.list) > 0
    /\ \E s \in DOMAIN wildcards : s \notin DOMAIN hosts /\ \A i \in 1..Len(LastRet.list) : LastRet.list[i] # s

(***************************************************************************)
(* C17: GetHostname(h) returns (hosts[h], true) when h is a key of hosts   *)
(* and (nil, false) otherwise, also when findMatchingApp finds a wildcard  *)
(* or the default app for h, and also for h = "*.s" after AddHostname of   *)
(* "*.s" returned nil.                                                     *)
(***************************************************************************)
C17_Theorem ==
    /\ LastArg.op = "GetHostname" =>
        /\ LastArg.hostname \in DOMAIN pre.hosts => (LastRet.exists /\ LastRet.app = pre.hosts[LastArg.hostname])
        /\ LastArg.hostname \notin DOMAIN pre.hosts => (~LastRet.exists /\ LastRet.app = Nil)
        /\ SameRegistry(pre)
    /\ \A h \in RegNames : h \notin DOMAIN hosts => GetHostname(hosts, h) = [app |-> Nil, exists |-> FALSE]
    /\ \A n \in DOMAIN bound : IsWildcardName(n) => GetHostname(hosts, n) = [app |-> Nil, exists |-> FALSE]

\* GetHostname finds nothing for a hostname that a request would resolve through a wildcard
C17_Witness ==
    /\ LastArg.op = "GetHostname"
    /\ ~LastRet.exists
    /\ HasDot(LastArg.hostname)
    /\ WithoutFirstLabel(LastArg.hostname) \in DOMAIN wildcards
    /\ Resolve(LastArg.hostname) = wildcards[WithoutFirstLabel(LastArg.hostname)]

(***************************************************************************)
(* C18: SetDefaultApp(H) has no error, makes H the default app whatever    *)
(* the default was (from the Config or from an earlier call) and leaves    *)
(* hosts and wildcards as they were; afterwards every hostname without an  *)
(* exact and without a wildcard match resolves to H, and with H = nil a    *)
(* request for such a hostname gets fiber.ErrNotFound.                     *)
(***************************************************************************)
C18_Theorem ==
    LastArg.op = "SetDefaultApp" =>
        /\ LastRet.err = NoErr
        /\ defaultApp = LastArg.app
        /\ hosts = pre.hosts
        /\ wildcards = pre.wildcards
        /\ \A h \in ReqNames : (h \notin DOMAIN hosts /\ ~(HasDot(h) /\ WithoutFirstLabel(h) \in DOMAIN wildcards)) =>
              /\ Resolve(h) = LastArg.app
              /\ VhostHandler(hosts, wildcards, defaultApp, enableLog, uses, h).invoked = LastArg.app
              /\ VhostHandler(hosts, wildcards, defaultApp, enableLog, uses, h).err = (IF LastArg.app = Nil THEN ErrNotFound ELSE NoErr)

\* SetDefaultApp(nil) on a registry with bindings whose default was an app
C18_Witness ==
    /\ LastArg.op = "SetDefaultApp"
    /\ LastArg.app = Nil
    /\ pre.defaultApp # Nil
    /\ defaultApp = Nil
    /\ NumEntries(hosts, wildcards) > 0

(***************************************************************************)
(* C19: a served request, whether it invoked an app or returned            *)
(* fiber.ErrNotFound, leaves hosts, wildcards and the default app as they  *)
(* were, so that every hostname resolves after it as it did before it.     *)
(***************************************************************************)
C19_Theorem ==
    LastArg.op = "Request" =>
        /\ hosts = pre.hosts
        /\ wildcards = pre.wildcards
        /\ defaultApp = pre.defaultApp
        /\ \A h \in CfgReqNames : Resolve(h) = findMatchingApp(pre.hosts, pre.wildcards, pre.defaultApp, h)

\* a request resolved through a wildcard that invoked its app and appended a middleware to it
C19_Witness ==
    /\ LastArg.op = "Request"
    /\ LastRet.invoked # Nil
    /\ LastArg.hostname \notin DOMAIN hosts
    /\ LastRet.invoked # defaultApp
    /\ uses[LastRet.invoked] > pre.uses[LastRet.invoked]

(***************************************************************************)
(* C20: in every reachable state, whatever AddHostname, RemoveHostname and *)
(* SetDefaultApp calls were made (the empty hostname among the arguments), *)
(* every key of hosts is a non-empty string.                               *)
(***************************************************************************)
C20_Theorem == \A k \in DOMAIN hosts : Len(k) > 0 /\ k # EmptyHostname

\* AddHostname of the empty hostname just returned, on a registry that holds exact hostnames only
C20_Witness ==
    /\ LastArg.op = "AddHostname"
    /\ LastArg.hostname = EmptyHostname
    /\ DOMAIN hosts # {}
    /\ wildcards = EmptyMap
    /\ EmptyHostname \notin DOMAIN hosts

(***************************************************************************)
(* C14: when the goroutines call AddHostname concurrently, each for a      *)
(* hostname of its own that has no binding, then in every interleaving     *)
(* each call returns nil and no binding is lost: once all have returned,   *)
(* each of the hostnames resolves to the app it was added with, and a      *)
(* request for it invokes that app.                                        *)
(***************************************************************************)
C14_Theorem ==
    /\ \A t \in Threads : (pc[t] = "idle" /\ arg[t].op = "AddHostname") =>
          (ret[t].err = NoErr /\ AddedName(t) \in DOMAIN bound /\ bound[AddedName(t)] = arg[t].app)
    /\ \A n \in DOMAIN bound :
          IF IsWildcardName(n) THEN Suffix(n) \in DOMAIN wildcards /\ wildcards[Suffix(n)] = bound[n]
          ELSE n \in DOMAIN hosts /\ hosts[n] = bound[n]
    /\ AllAdded => \A t \in Threads : AddedName(t) \in DOMAIN bound /\ Resolve(HostFor(AddedName(t))) = bound[AddedName(t)]
    /\ \A t \in Threads : \A u \in Threads : (pc[t] = "idle" /\ arg[t].op = "Request" /\ arg[t].hostname = HostFor(AddedName(u))) =>
          (ret[t].err = NoErr /\ ret[t].invoked = bound[AddedName(u)])

\* after all the calls returned, a request was served by the app added under a wildcard
\* by one goroutine while a request for the hostname another goroutine added is under way
C14_Witness ==
    /\ AllAdded
    /\ \E t \in Threads : \E u \in Threads :
          /\ t # u
          /\ arg[t].op = "Request"
          /\ IsWildcardName(AddedName(u))
          /\ arg[t].hostname = HostFor(AddedName(u))
          /\ ret[t].invoked = bound[AddedName(u)]
          /\ bound[AddedName(t)] # bound[AddedName(u)]

(***************************************************************************)
(* C15: a request that begins after AddHostname and RemoveHostname calls   *)
(* have returned resolves by what those calls left, whatever calls for     *)
(* other hostnames run meanwhile: findMatchingApp of a request for h       *)
(* returns the app of h's exact binding if an AddHostname(h) returned nil  *)
(* with no RemoveHostname(h) returning nil after it, otherwise the app of  *)
(* the wildcard over h's parent if that was so added and not removed, and  *)
(* otherwise finds h in neither map; and it does return.                   *)
(***************************************************************************)
C15_Claim ==
    \A t \in Threads :
        /\ pc[t] # Fatal
        /\ pc[t] = "Request:Invoke" =>
              LET h == arg[t].hostname
                  w == WildcardPrefix \o (IF HasDot(h) THEN WithoutFirstLabel(h) ELSE EmptyHostname)
              IN IF h \in DOMAIN bound THEN ret[t].exists /\ ret[t].app = bound[h]
                 ELSE IF HasDot(h) /\ w \in DOMAIN bound THEN ret[t].exists /\ ret[t].app = bound[w]
                 ELSE ~ret[t].exists

(***************************************************************************)
(* C21: hosts and wildcards are namespaces of their own.  AddHostname of a *)
(* hostname without a binding in the map its form selects returns nil      *)
(* whatever the other map holds, so "d" and "*.d" can both be added, in    *)
(* either order.  An AddHostname or RemoveHostname that returns nil adds   *)
(* or deletes one key of that map and leaves the other map as it was; one  *)
(* that returns an error leaves both.  No key of hosts starts with "*.",   *)
(* and neither call changes the default app.                               *)
(***************************************************************************)
C21_Theorem ==
    /\ \A k \in DOMAIN hosts : ~HasPrefix(k, WildcardPrefix)
    /\ LastArg.op \in {"AddHostname", "RemoveHostname"} =>
        LET n == LastArg.hostname IN
        /\ defaultApp = pre.defaultApp
        /\ LastRet.err # NoErr => (hosts = pre.hosts /\ wildcards = pre.wildcards)
        /\ (LastArg.op = "AddHostname" /\ n # EmptyHostname /\ ~HasBinding(pre, n)) => LastRet.err = NoErr
        /\ (LastArg.op = "AddHostname" /\ LastRet.err = NoErr /\ IsWildcardName(n)) =>
              (hosts = pre.hosts /\ Suffix(n) \notin DOMAIN pre.wildcards /\ wildcards = MapPut(pre.wildcards, Suffix(n), LastArg.app))
        /\ (LastArg.op = "AddHostname" /\ LastRet.err = NoErr /\ ~IsWildcardName(n)) =>
              (wildcards = pre.wildcards /\ n \notin DOMAIN pre.hosts /\ hosts = MapPut(pre.hosts, n, LastArg.app))
        /\ (LastArg.op = "RemoveHostname" /\ LastRet.err = NoErr /\ IsWildcardName(n)) =>
              (hosts = pre.hosts /\ Suffix(n) \in DOMAIN pre.wildcards /\ wildcards = MapDelete(pre.wildcards, Suffix(n)))
        /\ (LastArg.op = "RemoveHostname" /\ LastRet.err = NoErr /\ ~IsWildcardName(n)) =>
              (wildcards = pre.wildcards /\ n \in DOMAIN pre.hosts /\ hosts = MapDelete(pre.hosts, n))

\* RemoveHostname("*.d") returned nil where "d" is bound in hosts to another app than the wildcard was
C21_Witness ==
    /\ LastArg.op = "RemoveHostname"
    /\ IsWildcardName(LastArg.hostname)
    /\ LastRet.err = NoErr
    /\ Suffix(LastArg.hostname) \in DOMAIN hosts
    /\ hosts[Suffix(LastArg.hostname)] # pre.wildcards[Suffix(LastArg.hostname)]
    /\ Suffix(LastArg.hostname) \notin DOMAIN wildcards

(***************************************************************************)
(* C22: every registry operation gives back the lock it took on each of    *)
(* its return paths, ErrHostExists and ErrHostNotFound included: the write *)
(* lock is held only by a goroutine in the body of AddHostname,            *)
(* RemoveHostname or SetDefaultApp and a read lock only by one in the body *)
(* of GetHostname or GetHostnames; while some call is under way some       *)
(* goroutine can take a step (no deadlock); and under fair scheduling      *)
(* every call that was started returns.                                    *)
(***************************************************************************)
C22_Theorem ==
    /\ [](\A t \in Threads : /\ mu.writer = t <=> pc[t] \in WritePositions
                             /\ pc[t] \in LockedReadPositions => t \in mu.readers
                             /\ t \in mu.readers => pc[t] \in LockedReadPositions \cup RLockPositions)
    /\ []((\A t \in Threads : pc[t] = "idle") => mu = Unlocked)
    /\ []((\E t \in Threads : pc[t] # "idle") =>
            \E t \in Threads : \/ pc[t] \in WritePositions \cup LockedReadPositions
                               \/ pc[t] \in LockPositions /\ CanLock
                               \/ pc[t] \in RLockPositions /\ (t \in mu.readers \/ CanRLock))
    /\ \A t \in Threads : (pc[t] # "idle") ~> (pc[t] = "idle")

\* AddHostname returned ErrHostExists and RemoveHostname ErrHostNotFound, and the lock is free
C22_Witness ==
    /\ mu = Unlocked
    /\ \E t \in Threads : \E u \in Threads :
          /\ pc[t] = "idle" /\ arg[t].op = "AddHostname" /\ ret[t].err = ErrHostExists
          /\ pc[u] = "idle" /\ arg[u].op = "RemoveHostname" /\ ret[u].err = ErrHostNotFound

====
